---- MODULE Spec2Model ----
(***************************************************************************)
(* A model of the doubly linked list of src/src/lib.rs: the node store,    *)
(* the LinkedList struct (head, tail, len), the mutable cursor and the     *)
(* borrowing iterators.  Every method is an operator on the structs it     *)
(* reads and writes, translated statement by statement; the actions apply  *)
(* the methods the way a caller holding the corresponding borrow can.      *)
(***************************************************************************)
EXTENDS Integers, Sequences, FiniteSets, TLC

\* Pushes are enabled while len < MaxLen; there are MaxLen node addresses.
MaxLen == 3
\* Element values are 1..MaxVal.
MaxVal == 2
\* A logging caller makes at most MaxOps calls.
MaxOps == 5

\* Link<T> = Option<NonNull<Node<T>>>: None is Null, Some(p) is the address p.
Null == 0
\* Option<T> / Option<&T> results: None is NoVal, Some(v) is the value v.
NoVal == -1

Addr == 1..MaxLen
Values == 1..MaxVal
Link == Addr \cup {Null}

VARIABLES
    list,          \* the LinkedList struct together with the nodes it owns
    cursor,        \* the CursorMut struct: [index, current]
    iter,          \* the Iter / IterMut struct: [head, tail, len]
    mode,          \* which borrow of the list is live
    op,            \* the last method called
    arg,           \* the value it was given (NoVal when it takes none)
    ret,           \* what it returned (NoVal for None and for unit)
    front_yields,  \* nodes the live iterator yielded from next(), in order
    back_yields,   \* nodes the live iterator yielded from next_back(), in order
    source,        \* the list as it was when IntoIter took it / it was dropped
    walk,          \* the cursor's run of moves in one direction: [dir, k]
    log,           \* the calls a logging caller made: <<[op, val], ...>>
    held           \* nodes whose element the caller holds a CursorMut reference to

vars == <<list, cursor, iter, mode, op, arg, ret, front_yields, back_yields,
          source, walk, log, held>>

----------------------------------------------------------------------------
\* Node storage

\* The address Box::new returns: a location that is not currently allocated.
Alloc(L) == CHOOSE n \in Addr \ L.live : \A m \in Addr \ L.live : n <= m

\* Box::leak(Box::new(Node::new(value))): element set, both links None.
Node_new(L, n, value) ==
    [L EXCEPT !.element[n] = value, !.next[n] = Null, !.prev[n] = Null,
              !.live = @ \cup {n}]

\* Dropping the Box made by Box::from_raw: the node's storage is released.
Box_drop(L, n) ==
    [L EXCEPT !.element[n] = NoVal, !.next[n] = Null, !.prev[n] = Null,
              !.live = @ \ {n}]

----------------------------------------------------------------------------
\* LinkedList

LinkedList_new ==
    [element |-> [n \in Addr |-> NoVal],
     next    |-> [n \in Addr |-> Null],
     prev    |-> [n \in Addr |-> Null],
     live    |-> {},
     head    |-> Null,
     tail    |-> Null,
     len     |-> 0]

len(L) == L.len

is_empty(L) == L.len = 0

push_front(L, value) ==
    LET new_head == Alloc(L)
        A == Node_new(L, new_head, value)
        B == IF L.head = Null
             THEN [A EXCEPT !.tail = new_head]
             ELSE [A EXCEPT !.prev[L.head] = new_head,
                            !.next[new_head] = L.head]
    IN  [B EXCEPT !.head = new_head, !.len = L.len + 1]

\* push_back that splices at the head, as push_front does.
push_back_at_head(L, value) == push_front(L, value)

push_back(L, value) ==
    LET new_tail == Alloc(L)
        A == Node_new(L, new_tail, value)
        B == IF L.tail = Null
             THEN [A EXCEPT !.head = new_tail]
             ELSE [A EXCEPT !.next[L.tail] = new_tail,
                            !.prev[new_tail] = L.tail]
    IN  [B EXCEPT !.tail = new_tail, !.len = L.len + 1]

\* pop_front whose `None` arm forgets `self.tail = None`.
pop_front_keep_tail(L) ==
    IF L.head = Null THEN <<L, NoVal>>
    ELSE LET old_head == L.head
             nx == L.next[old_head]
             A == IF nx = Null
                  THEN [L EXCEPT !.head = Null]
                  ELSE [L EXCEPT !.prev[nx] = Null, !.head = nx]
             B == [A EXCEPT !.len = L.len - 1]
         IN  <<Box_drop(B, old_head), L.element[old_head]>>

\* <<list afterwards, returned Option<T>>>
pop_front(L) ==
    IF L.head = Null THEN <<L, NoVal>>
    ELSE LET old_head == L.head
             nx == L.next[old_head]
             A == IF nx = Null
                  THEN [L EXCEPT !.tail = Null, !.head = Null]
                  ELSE [L EXCEPT !.prev[nx] = Null, !.head = nx]
             B == [A EXCEPT !.len = L.len - 1]
         IN  <<Box_drop(B, old_head), L.element[old_head]>>

\* pop_back that detaches the head, as pop_front does.
pop_back_at_head(L) == pop_front(L)

pop_back(L) ==
    IF L.tail = Null THEN <<L, NoVal>>
    ELSE LET old_tail == L.tail
             pv == L.prev[old_tail]
             A == IF pv = Null
                  THEN [L EXCEPT !.head = Null, !.tail = Null]
                  ELSE [L EXCEPT !.next[pv] = Null, !.tail = pv]
             B == [A EXCEPT !.len = L.len - 1]
         IN  <<Box_drop(B, old_tail), L.element[old_tail]>>

\* front that reads the tail node, as back does.
front_at_tail(L) == IF L.tail = Null THEN NoVal ELSE L.element[L.tail]

front(L) == IF L.head = Null THEN NoVal ELSE L.element[L.head]

back(L) == IF L.tail = Null THEN NoVal ELSE L.element[L.tail]

\* from that puts each element at the front.
RECURSIVE from_push_front(_)
from_push_front(s) ==
    IF s = <<>> THEN LinkedList_new
    ELSE push_front(from_push_front(SubSeq(s, 1, Len(s) - 1)), s[Len(s)])

\* From<[T; N]> / FromIterator: push_back of each element in order.
RECURSIVE from(_)
from(s) ==
    IF s = <<>> THEN LinkedList_new
    ELSE push_back(from(SubSeq(s, 1, Len(s) - 1)), s[Len(s)])

----------------------------------------------------------------------------
\* Iter / IterMut

\* LinkedList::iter and LinkedList::iter_mut copy head, tail and len.
Iter_new(L) == [head |-> L.head, tail |-> L.tail, len |-> L.len]

IterMut_new(L) == [head |-> L.head, tail |-> L.tail, len |-> L.len]

\* Iter::next without its `if self.len == 0` test.
Iter_next_unbounded(it, L) ==
    IF it.head = Null THEN <<it, Null>>
    ELSE <<[it EXCEPT !.head = L.next[it.head], !.len = it.len - 1], it.head>>

\* <<iterator afterwards, the node whose element is yielded (Null for None)>>
Iter_next(it, L) ==
    IF it.len = 0 THEN <<it, Null>>
    ELSE IF it.head = Null THEN <<it, Null>>
    ELSE <<[it EXCEPT !.head = L.next[it.head], !.len = it.len - 1], it.head>>

Iter_next_back(it, L) ==
    IF it.len = 0 THEN <<it, Null>>
    ELSE IF it.tail = Null THEN <<it, Null>>
    ELSE <<[it EXCEPT !.len = it.len - 1, !.tail = L.prev[it.tail]], it.tail>>

IterMut_next(it, L) ==
    IF it.len = 0 THEN <<it, Null>>
    ELSE IF it.head = Null THEN <<it, Null>>
    ELSE <<[it EXCEPT !.len = it.len - 1, !.head = L.next[it.head]], it.head>>

IterMut_next_back(it, L) ==
    IF it.len = 0 THEN <<it, Null>>
    ELSE IF it.tail = Null THEN <<it, Null>>
    ELSE <<[it EXCEPT !.len = it.len - 1, !.tail = L.prev[it.tail]], it.tail>>

----------------------------------------------------------------------------
\* Cursor movement (the free functions shared by Cursor and CursorMut)

\* usize::saturating_sub
saturating_sub(a, b) == IF a >= b THEN a - b ELSE 0

\* move_next whose `None` arm forgets `*index = 0`.
move_next_keep_index(C, L) ==
    IF C.current = Null
    THEN [C EXCEPT !.current = L.head]
    ELSE [C EXCEPT !.current = L.next[C.current], !.index = C.index + 1]

move_next(C, L) ==
    IF C.current = Null
    THEN [C EXCEPT !.current = L.head, !.index = 0]
    ELSE [C EXCEPT !.current = L.next[C.current], !.index = C.index + 1]

move_prev(C, L) ==
    IF C.current = Null
    THEN [C EXCEPT !.current = L.tail, !.index = saturating_sub(len(L), 1)]
    ELSE [C EXCEPT !.current = L.prev[C.current],
                   !.index = saturating_sub(C.index, 1)]

----------------------------------------------------------------------------
\* CursorMut

CursorMut_new == [index |-> 0, current |-> Null]

CursorMut_index(C) == IF C.current = Null THEN NoVal ELSE C.index

CursorMut_current(C, L) ==
    IF C.current = Null THEN NoVal ELSE L.element[C.current]

\* delete whose `match prev` forgets the `None` arm: head is left as it was.
delete_relink_prev_keep_head(L, pv, nx) ==
    IF pv = Null THEN L ELSE [L EXCEPT !.next[pv] = nx]

\* delete, `match prev`: the predecessor's next, or the list's head, skips
\* the deleted node.
delete_relink_prev(L, pv, nx) ==
    IF pv = Null THEN [L EXCEPT !.head = nx] ELSE [L EXCEPT !.next[pv] = nx]

\* delete without its `if let Some(next) = next` block: the successor's prev
\* is left pointing at the node.
delete_relink_next_skipped(L, pv, nx) == L

\* delete, `if let Some(next) = next`: the successor's prev skips the node.
delete_relink_next(L, pv, nx) ==
    IF nx # Null THEN [L EXCEPT !.prev[nx] = pv] ELSE L

\* delete without its `if next.is_none()` block: the tail is left as it was.
delete_keep_tail(L, pv, nx) == L

\* delete, `if next.is_none()`: the predecessor becomes the tail.
delete_fix_tail(L, pv, nx) ==
    IF nx = Null THEN [L EXCEPT !.tail = pv] ELSE L

\* delete that counts the removal before looking at `self.current`.
delete_counts_first(L, C) ==
    LET L1 == [L EXCEPT !.len = saturating_sub(L.len, 1)]
    IN  IF C.current = Null THEN <<L1, C, NoVal>>
        ELSE LET node == C.current
                 pv == L1.prev[node]
                 nx == L1.next[node]
                 A == delete_relink_prev(L1, pv, nx)
                 B == delete_relink_next(A, pv, nx)
                 D == delete_fix_tail(B, pv, nx)
             IN  <<Box_drop(D, node), [C EXCEPT !.current = nx], L.element[node]>>

\* <<list afterwards, cursor afterwards, returned Option<T>>>
delete(L, C) ==
    IF C.current = Null THEN <<L, C, NoVal>>
    ELSE LET node == C.current
             pv == L.prev[node]
             nx == L.next[node]
             A == delete_relink_prev(L, pv, nx)
             B == delete_relink_next(A, pv, nx)
             D == delete_fix_tail(B, pv, nx)
         IN  <<Box_drop(D, node), [C EXCEPT !.current = nx], L.element[node]>>

\* insert_before whose splice forgets `self.list.len += 1`.
insert_before_splice_uncounted(L, pv, current, element) ==
    LET node == Alloc(L)
        A == Node_new(L, node, element)
    IN  [A EXCEPT !.next[pv] = node, !.prev[node] = pv,
                  !.next[node] = current, !.prev[current] = node]

\* insert_before, `Some(prev)` arm: the new node goes between prev and current.
insert_before_splice(L, pv, current, element) ==
    LET node == Alloc(L)
        A == Node_new(L, node, element)
    IN  [A EXCEPT !.next[pv] = node, !.prev[node] = pv,
                  !.next[node] = current, !.prev[current] = node,
                  !.len = L.len + 1]

\* <<list afterwards, cursor afterwards>>
insert_before(L, C, element) ==
    IF C.current = Null THEN <<push_front(L, element), C>>
    ELSE LET current == C.current
             pv == L.prev[current]
             L2 == IF pv = Null THEN push_front(L, element)
                   ELSE insert_before_splice(L, pv, current, element)
         IN  <<L2, [C EXCEPT !.index = C.index + 1]>>

\* insert_after whose splice forgets `(*current.as_ptr()).next = Some(node)`.
insert_after_splice_unlinked(L, current, nx, element) ==
    LET node == Alloc(L)
        A == Node_new(L, node, element)
    IN  [A EXCEPT !.prev[node] = current,
                  !.next[node] = nx, !.prev[nx] = node,
                  !.len = L.len + 1]

\* insert_after, `Some(next)` arm: the new node goes between current and next.
insert_after_splice(L, current, nx, element) ==
    LET node == Alloc(L)
        A == Node_new(L, node, element)
    IN  [A EXCEPT !.next[current] = node, !.prev[node] = current,
                  !.next[node] = nx, !.prev[nx] = node,
                  !.len = L.len + 1]

insert_after(L, C, element) ==
    IF C.current = Null THEN <<push_back(L, element), C>>
    ELSE LET current == C.current
             nx == L.next[current]
             L2 == IF nx = Null THEN push_back(L, element)
                   ELSE insert_after_splice(L, current, nx, element)
         IN  <<L2, C>>

\* The nodes whose element current(), peek_next() and peek_prev() borrow for
\* the lifetime 'a of the list borrow (Null when they return None).
CursorMut_current_ref(C) == C.current

CursorMut_peek_next_ref(C, L) ==
    IF C.current = Null THEN L.head ELSE L.next[C.current]

CursorMut_peek_prev_ref(C, L) ==
    IF C.current = Null THEN L.tail ELSE L.prev[C.current]

\* CursorMut::peek_next / peek_prev: the element move_next / move_prev would
\* reach, read from head / tail when off-list and from the node's link
\* otherwise.
CursorMut_peek_next(C, L) ==
    LET nx == IF C.current = Null THEN L.head ELSE L.next[C.current]
    IN  IF nx = Null THEN NoVal ELSE L.element[nx]

CursorMut_peek_prev(C, L) ==
    LET pv == IF C.current = Null THEN L.tail ELSE L.prev[C.current]
    IN  IF pv = Null THEN NoVal ELSE L.element[pv]

----------------------------------------------------------------------------
\* Cursor

Cursor_new == [index |-> 0, current |-> Null]

Cursor_index(C) == IF C.current = Null THEN NoVal ELSE C.index

Cursor_current(C, L) ==
    IF C.current = Null THEN NoVal ELSE L.element[C.current]

Cursor_peek_next(C, L) ==
    LET nx == IF C.current = Null THEN L.head ELSE L.next[C.current]
    IN  IF nx = Null THEN NoVal ELSE L.element[nx]

\* Cursor::peek_prev that starts from head when off-list, as peek_next does.
Cursor_peek_prev_from_head(C, L) ==
    LET pv == IF C.current = Null THEN L.head ELSE L.prev[C.current]
    IN  IF pv = Null THEN NoVal ELSE L.element[pv]

Cursor_peek_prev(C, L) ==
    LET pv == IF C.current = Null THEN L.tail ELSE L.prev[C.current]
    IN  IF pv = Null THEN NoVal ELSE L.element[pv]

----------------------------------------------------------------------------
\* The program as a state machine.  mode is the borrow that is live: "list"
\* (the owner calls the list's own methods), "cursor_mut" (a CursorMut holds
\* the exclusive borrow), "cursor" (a Cursor holds a shared borrow), "iter" /
\* "iter_mut" (a borrowing iterator does), "into_iter" (the list has moved
\* into an owning iterator), "dropped" (the list has been dropped).

NoCursor == [index |-> 0, current |-> Null]
NoIter == [head |-> Null, tail |-> Null, len |-> 0]

\* walk observes a cursor: dir is "next" (or "prev") and k is the number of
\* move_next (move_prev) calls made in a row, the first of them from
\* off-list, with no call in between that moves the cursor otherwise or
\* changes the list.  A move from off-list starts a new run.
NoWalk == [dir |-> "none", k |-> 0]

WalkAfter(d, C) ==
    IF C.current = Null THEN [dir |-> d, k |-> 1]
    ELSE IF walk.dir = d THEN [dir |-> d, k |-> walk.k + 1]
    ELSE NoWalk

Init ==
    /\ list = LinkedList_new
    /\ cursor = NoCursor
    /\ iter = NoIter
    /\ mode = "list"
    /\ op = "new"
    /\ arg = NoVal
    /\ ret = NoVal
    /\ front_yields = <<>>
    /\ back_yields = <<>>
    /\ source = LinkedList_new
    /\ walk = NoWalk
    /\ log = <<>>
    /\ held = {}

PushFront ==
    /\ mode = "list"
    /\ len(list) < MaxLen
    /\ \E v \in Values : list' = push_front(list, v) /\ arg' = v
    /\ op' = "push_front"
    /\ ret' = NoVal
    /\ UNCHANGED <<cursor, iter, mode, front_yields, back_yields>>
    /\ walk' = NoWalk
    /\ UNCHANGED <<source, log, held>>

PushBack ==
    /\ mode = "list"
    /\ len(list) < MaxLen
    /\ \E v \in Values : list' = push_back(list, v) /\ arg' = v
    /\ op' = "push_back"
    /\ ret' = NoVal
    /\ UNCHANGED <<cursor, iter, mode, front_yields, back_yields>>
    /\ walk' = NoWalk
    /\ UNCHANGED <<source, log, held>>

PopFront ==
    /\ mode = "list"
    /\ list' = pop_front(list)[1]
    /\ ret' = pop_front(list)[2]
    /\ op' = "pop_front"
    /\ arg' = NoVal
    /\ UNCHANGED <<cursor, iter, mode, front_yields, back_yields>>
    /\ walk' = NoWalk
    /\ UNCHANGED <<source, log, held>>

PopBack ==
    /\ mode = "list"
    /\ list' = pop_back(list)[1]
    /\ ret' = pop_back(list)[2]
    /\ op' = "pop_back"
    /\ arg' = NoVal
    /\ UNCHANGED <<cursor, iter, mode, front_yields, back_yields>>
    /\ walk' = NoWalk
    /\ UNCHANGED <<source, log, held>>

\* list.front(): a result and no assignment
Front ==
    /\ mode = "list"
    /\ op' = "front"
    /\ arg' = NoVal
    /\ ret' = front(list)
    /\ UNCHANGED <<list, cursor, iter, mode, front_yields, back_yields>>
    /\ walk' = NoWalk
    /\ UNCHANGED <<source, log, held>>

\* list.back()
Back ==
    /\ mode = "list"
    /\ op' = "back"
    /\ arg' = NoVal
    /\ ret' = back(list)
    /\ UNCHANGED <<list, cursor, iter, mode, front_yields, back_yields>>
    /\ walk' = NoWalk
    /\ UNCHANGED <<source, log, held>>

\* list.cursor_mut()
CursorMutNew ==
    /\ mode = "list"
    /\ mode' = "cursor_mut"
    /\ cursor' = CursorMut_new
    /\ op' = "cursor_mut"
    /\ arg' = NoVal
    /\ ret' = NoVal
    /\ UNCHANGED <<list, iter, front_yields, back_yields>>
    /\ walk' = NoWalk
    /\ UNCHANGED <<source, log, held>>

\* the cursor goes out of scope and the list is the owner's again
CursorMutDrop ==
    /\ mode = "cursor_mut"
    /\ mode' = "list"
    /\ cursor' = NoCursor
    /\ op' = "end_borrow"
    /\ arg' = NoVal
    /\ ret' = NoVal
    /\ UNCHANGED <<list, iter, front_yields, back_yields>>
    /\ walk' = NoWalk
    /\ UNCHANGED <<source, log>>
    /\ held' = {}

CursorMutMoveNext ==
    /\ mode = "cursor_mut"
    /\ cursor' = move_next(cursor, list)
    /\ op' = "move_next"
    /\ arg' = NoVal
    /\ ret' = NoVal
    /\ UNCHANGED <<list, iter, mode, front_yields, back_yields>>
    /\ walk' = WalkAfter("next", cursor)
    /\ UNCHANGED <<source, log, held>>

CursorMutMovePrev ==
    /\ mode = "cursor_mut"
    /\ cursor' = move_prev(cursor, list)
    /\ op' = "move_prev"
    /\ arg' = NoVal
    /\ ret' = NoVal
    /\ UNCHANGED <<list, iter, mode, front_yields, back_yields>>
    /\ walk' = WalkAfter("prev", cursor)
    /\ UNCHANGED <<source, log, held>>

CursorMutDelete ==
    /\ mode = "cursor_mut"
    /\ list' = delete(list, cursor)[1]
    /\ cursor' = delete(list, cursor)[2]
    /\ ret' = delete(list, cursor)[3]
    /\ op' = "delete"
    /\ arg' = NoVal
    /\ UNCHANGED <<iter, mode, front_yields, back_yields>>
    /\ walk' = NoWalk
    /\ UNCHANGED <<source, log, held>>

CursorMutInsertBefore ==
    /\ mode = "cursor_mut"
    /\ len(list) < MaxLen
    /\ \E v \in Values :
          /\ list' = insert_before(list, cursor, v)[1]
          /\ cursor' = insert_before(list, cursor, v)[2]
          /\ arg' = v
    /\ ret' = NoVal
    /\ op' = "insert_before"
    /\ UNCHANGED <<iter, mode, front_yields, back_yields>>
    /\ walk' = NoWalk
    /\ UNCHANGED <<source, log, held>>

CursorMutInsertAfter ==
    /\ mode = "cursor_mut"
    /\ len(list) < MaxLen
    /\ \E v \in Values :
          /\ list' = insert_after(list, cursor, v)[1]
          /\ cursor' = insert_after(list, cursor, v)[2]
          /\ arg' = v
    /\ ret' = NoVal
    /\ op' = "insert_after"
    /\ UNCHANGED <<iter, mode, front_yields, back_yields>>
    /\ walk' = NoWalk
    /\ UNCHANGED <<source, log, held>>

\* list.iter()
IterNew ==
    /\ mode = "list"
    /\ mode' = "iter"
    /\ iter' = Iter_new(list)
    /\ op' = "iter"
    /\ arg' = NoVal
    /\ ret' = NoVal
    /\ front_yields' = <<>>
    /\ back_yields' = <<>>
    /\ UNCHANGED <<list, cursor>>
    /\ walk' = NoWalk
    /\ UNCHANGED <<source, log, held>>

\* list.iter_mut()
IterMutNew ==
    /\ mode = "list"
    /\ mode' = "iter_mut"
    /\ iter' = IterMut_new(list)
    /\ op' = "iter_mut"
    /\ arg' = NoVal
    /\ ret' = NoVal
    /\ front_yields' = <<>>
    /\ back_yields' = <<>>
    /\ UNCHANGED <<list, cursor>>
    /\ walk' = NoWalk
    /\ UNCHANGED <<source, log, held>>

\* what a step of a borrowing iterator leaves: the iterator afterwards, the
\* element yielded, and the yielded node recorded at its end
Yield(r, o, atFront) ==
    /\ iter' = r[1]
    /\ op' = o
    /\ arg' = NoVal
    /\ ret' = IF r[2] = Null THEN NoVal ELSE list.element[r[2]]
    /\ front_yields' = IF atFront /\ r[2] # Null
                       THEN Append(front_yields, r[2]) ELSE front_yields
    /\ back_yields' = IF ~atFront /\ r[2] # Null
                      THEN Append(back_yields, r[2]) ELSE back_yields
    /\ UNCHANGED <<list, cursor, mode>>
    /\ UNCHANGED <<source, walk, log, held>>

IterNext ==
    /\ mode = "iter"
    /\ Yield(Iter_next(iter, list), "next", TRUE)

IterNextBack ==
    /\ mode = "iter"
    /\ Yield(Iter_next_back(iter, list), "next_back", FALSE)

IterMutNext ==
    /\ mode = "iter_mut"
    /\ Yield(IterMut_next(iter, list), "next", TRUE)

IterMutNextBack ==
    /\ mode = "iter_mut"
    /\ Yield(IterMut_next_back(iter, list), "next_back", FALSE)

\* the iterator goes out of scope
IterDrop ==
    /\ mode \in {"iter", "iter_mut"}
    /\ mode' = "list"
    /\ iter' = NoIter
    /\ op' = "end_borrow"
    /\ arg' = NoVal
    /\ ret' = NoVal
    /\ front_yields' = <<>>
    /\ back_yields' = <<>>
    /\ UNCHANGED <<list, cursor>>
    /\ walk' = NoWalk
    /\ UNCHANGED <<source, log, held>>

\* list.cursor()
CursorNew ==
    /\ mode = "list"
    /\ mode' = "cursor"
    /\ cursor' = Cursor_new
    /\ op' = "cursor"
    /\ arg' = NoVal
    /\ ret' = NoVal
    /\ walk' = NoWalk
    /\ UNCHANGED <<list, iter, front_yields, back_yields, source, log, held>>

\* the cursor goes out of scope
CursorDrop ==
    /\ mode = "cursor"
    /\ mode' = "list"
    /\ cursor' = NoCursor
    /\ op' = "end_borrow"
    /\ arg' = NoVal
    /\ ret' = NoVal
    /\ walk' = NoWalk
    /\ UNCHANGED <<list, iter, front_yields, back_yields, source, log, held>>

CursorMoveNext ==
    /\ mode = "cursor"
    /\ cursor' = move_next(cursor, list)
    /\ op' = "move_next"
    /\ arg' = NoVal
    /\ ret' = NoVal
    /\ walk' = WalkAfter("next", cursor)
    /\ UNCHANGED <<list, iter, mode, front_yields, back_yields, source, log, held>>

CursorMovePrev ==
    /\ mode = "cursor"
    /\ cursor' = move_prev(cursor, list)
    /\ op' = "move_prev"
    /\ arg' = NoVal
    /\ ret' = NoVal
    /\ walk' = WalkAfter("prev", cursor)
    /\ UNCHANGED <<list, iter, mode, front_yields, back_yields, source, log, held>>

\* what a peek leaves: its result, and nothing else changed
Peeked(o, v) ==
    /\ op' = o
    /\ arg' = NoVal
    /\ ret' = v
    /\ UNCHANGED <<list, cursor, iter, mode, front_yields, back_yields,
                   source, walk, log, held>>

CursorPeekNext ==
    /\ mode = "cursor"
    /\ Peeked("peek_next", Cursor_peek_next(cursor, list))

CursorPeekPrev ==
    /\ mode = "cursor"
    /\ Peeked("peek_prev", Cursor_peek_prev(cursor, list))

CursorMutPeekNext ==
    /\ mode = "cursor_mut"
    /\ Peeked("peek_next", CursorMut_peek_next(cursor, list))

CursorMutPeekPrev ==
    /\ mode = "cursor_mut"
    /\ Peeked("peek_prev", CursorMut_peek_prev(cursor, list))

\* The owning iterator IntoIter { list }: each step pops the wrapped list.
IntoIter_next(L) == pop_front(L)

IntoIter_next_back_at_front(L) == pop_front(L)

IntoIter_next_back(L) == pop_back(L)

\* Drop that calls pop_back once instead of looping.
drop_once(L) == pop_back(L)[1]

\* Drop for LinkedList: while self.pop_back().is_some() {}
RECURSIVE drop(_)
drop(L) ==
    IF pop_back(L)[2] = NoVal THEN L ELSE drop(pop_back(L)[1])

\* list.into_iter(): the list moves into the iterator.  source keeps the list
\* as it was at that moment.
IntoIterNew ==
    /\ mode = "list"
    /\ mode' = "into_iter"
    /\ source' = list
    /\ op' = "into_iter"
    /\ arg' = NoVal
    /\ ret' = NoVal
    /\ front_yields' = <<>>
    /\ back_yields' = <<>>
    /\ UNCHANGED <<list, cursor, iter, log, held>>
    /\ walk' = NoWalk

\* what a step of the owning iterator leaves: the wrapped list afterwards,
\* the element moved out, and the node it was in recorded at its end
Drained(r, o, n, atFront) ==
    /\ list' = r[1]
    /\ op' = o
    /\ arg' = NoVal
    /\ ret' = r[2]
    /\ front_yields' = IF atFront /\ r[2] # NoVal
                       THEN Append(front_yields, n) ELSE front_yields
    /\ back_yields' = IF ~atFront /\ r[2] # NoVal
                      THEN Append(back_yields, n) ELSE back_yields
    /\ UNCHANGED <<cursor, iter, mode, source, walk>>

IntoIterNext ==
    /\ mode = "into_iter"
    /\ Drained(IntoIter_next(list), "next", list.head, TRUE)
    /\ UNCHANGED <<log, held>>

IntoIterNextBack ==
    /\ mode = "into_iter"
    /\ Drained(IntoIter_next_back(list), "next_back", list.tail, FALSE)
    /\ UNCHANGED <<log, held>>

\* The iterator goes out of scope and the list it wraps is dropped with it.
\* source keeps the list as it was when the drop began.
IntoIterDrop ==
    /\ mode = "into_iter"
    /\ mode' = "dropped"
    /\ list' = drop(list)
    /\ source' = list
    /\ op' = "drop"
    /\ arg' = NoVal
    /\ ret' = NoVal
    /\ front_yields' = <<>>
    /\ back_yields' = <<>>
    /\ UNCHANGED <<cursor, iter, log, held>>
    /\ walk' = NoWalk

\* The list goes out of scope while no borrow of it is live.
ListDrop ==
    /\ mode = "list"
    /\ mode' = "dropped"
    /\ list' = drop(list)
    /\ source' = list
    /\ op' = "drop"
    /\ arg' = NoVal
    /\ ret' = NoVal
    /\ UNCHANGED <<cursor, iter, front_yields, back_yields, log, held>>
    /\ walk' = NoWalk

\* LinkedList::new() after the drop: a new struct, the node store as the
\* drop left it.
New ==
    /\ mode = "dropped"
    /\ mode' = "list"
    /\ list' = [list EXCEPT !.head = Null, !.tail = Null, !.len = 0]
    /\ source' = LinkedList_new
    /\ op' = "new"
    /\ arg' = NoVal
    /\ ret' = NoVal
    /\ UNCHANGED <<cursor, iter, front_yields, back_yields, log, held>>
    /\ walk' = NoWalk

NextIntoIter ==
    \/ IntoIterNew
    \/ IntoIterNext
    \/ IntoIterNextBack
    \/ IntoIterDrop
    \/ ListDrop
    \/ New

NextCursor ==
    \/ CursorNew
    \/ CursorDrop
    \/ CursorMoveNext
    \/ CursorMovePrev
    \/ CursorPeekNext
    \/ CursorPeekPrev
    \/ CursorMutPeekNext
    \/ CursorMutPeekPrev

NextIter ==
    \/ IterNew
    \/ IterMutNew
    \/ IterNext
    \/ IterNextBack
    \/ IterMutNext
    \/ IterMutNextBack
    \/ IterDrop

Next ==
    \/ PushFront
    \/ PushBack
    \/ PopFront
    \/ PopBack
    \/ Front
    \/ Back
    \/ CursorMutNew
    \/ CursorMutDrop
    \/ CursorMutMoveNext
    \/ CursorMutMovePrev
    \/ CursorMutDelete
    \/ CursorMutInsertBefore
    \/ CursorMutInsertAfter
    \/ NextCursor
    \/ NextIter
    \/ NextIntoIter

Spec == Init /\ [][Next]_vars

\* The sequences LinkedList::from is applied to.
RECURSIVE SeqsOfLen(_)
SeqsOfLen(n) ==
    IF n = 0 THEN {<<>>}
    ELSE {Append(s, v) : s \in SeqsOfLen(n - 1), v \in Values}

Inputs == UNION {SeqsOfLen(n) : n \in 0..MaxLen}

\* A list made by LinkedList::from(s) and then only borrowed by iterators.
InitFrom ==
    /\ \E s \in Inputs : list = from(s)
    /\ cursor = NoCursor
    /\ iter = NoIter
    /\ mode = "list"
    /\ op = "from"
    /\ arg = NoVal
    /\ ret = NoVal
    /\ front_yields = <<>>
    /\ back_yields = <<>>
    /\ source = LinkedList_new
    /\ walk = NoWalk
    /\ log = <<>>
    /\ held = {}

SpecFrom == InitFrom /\ [][NextIter]_vars

----------------------------------------------------------------------------
\* What an observer of the list sees

\* The nodes met by following link f from n, at most fuel of them.
RECURSIVE Walk(_, _, _)
Walk(f, n, fuel) ==
    IF n = Null \/ fuel = 0 THEN <<>>
    ELSE <<n>> \o Walk(f, f[n], fuel - 1)

\* The nodes reached from head by next, and from tail by prev.  A walk longer
\* than the number of addresses has met a cycle.
Forward(L) == Walk(L.next, L.head, MaxLen + 1)
Backward(L) == Walk(L.prev, L.tail, MaxLen + 1)

Reverse(s) == [i \in 1..Len(s) |-> s[Len(s) + 1 - i]]

\* The elements of the list, head to tail.
Elements(L) == [i \in 1..Len(Forward(L)) |-> L.element[Forward(L)[i]]]

Range(s) == {s[i] : i \in 1..Len(s)}

NoDuplicates(s) == \A i, j \in 1..Len(s) : s[i] = s[j] => i = j

\* The 1-based place of node n in the sequence of nodes s (0 when absent).
Pos(s, n) == IF n \in Range(s) THEN CHOOSE i \in 1..Len(s) : s[i] = n ELSE 0

Remove(s, i) == SubSeq(s, 1, i - 1) \o SubSeq(s, i + 1, Len(s))

\* s with x put at 1-based place i
InsertAt(s, i, x) == SubSeq(s, 1, i - 1) \o <<x>> \o SubSeq(s, i, Len(s))

----------------------------------------------------------------------------
\* Claims

\* C1: in every reachable state len() equals the number of nodes reached by
\* following next from head, and the number reached by following prev from
\* tail.
C1_LenCountsNodes ==
    /\ len(list) = Len(Forward(list))
    /\ len(list) = Len(Backward(list))

\* C2: in every reachable state the links form a straight chain: among live
\* nodes a.next = b iff b.prev = a; head is none iff tail is none; head.prev
\* and tail.next are none; the chain from head has no cycle, passes only live
\* nodes and ends at tail.
C2_WellFormedChain ==
    /\ (list.head = Null) <=> (list.tail = Null)
    /\ list.head # Null => list.head \in list.live /\ list.prev[list.head] = Null
    /\ list.tail # Null => list.tail \in list.live /\ list.next[list.tail] = Null
    /\ \A a, b \in list.live : (list.next[a] = b) <=> (list.prev[b] = a)
    /\ Len(Forward(list)) <= MaxLen
    /\ NoDuplicates(Forward(list))
    /\ Range(Forward(list)) \subseteq list.live
    /\ list.head # Null => Forward(list)[Len(Forward(list))] = list.tail
    /\ Backward(list) = Reverse(Forward(list))

\* C2's case: a mutable cursor has deleted a node that had a predecessor and
\* a successor, and now stands on that successor.
C2_Witness ==
    /\ op = "delete"
    /\ ret # NoVal
    /\ cursor.current # Null
    /\ list.prev[cursor.current] # Null

\* C3: in every reachable state is_empty(), len() == 0 and "front() and
\* back() both report no value" are equivalent.
C3_EmptyEquivalence ==
    /\ is_empty(list) <=> (len(list) = 0)
    /\ (len(list) = 0) <=> (front(list) = NoVal /\ back(list) = NoVal)

\* C4: delete() with the cursor on the node at place i of the sequence s
\* returns s[i]; afterwards the list holds s without that one node, the other
\* nodes in their order and with their elements; the cursor is on the node
\* that followed, which now stands at place i, or off-list if the deleted
\* node was the tail.
C4_DeleteRemovesCurrent ==
    [][(op' = "delete" /\ cursor.current # Null) =>
        LET s == Forward(list)
            i == Pos(s, cursor.current)
        IN  /\ i >= 1
            /\ ret' = Elements(list)[i]
            /\ Forward(list') = Remove(s, i)
            /\ Backward(list') = Reverse(Remove(s, i))
            /\ Elements(list') = Remove(Elements(list), i)
            /\ cursor'.current = (IF i < Len(s) THEN s[i + 1] ELSE Null)
            /\ cursor'.current # Null =>
                   Pos(Forward(list'), cursor'.current) = i]_vars

\* C4's case: a delete returned an element and left the cursor on the node
\* that followed it, with another node after that one.
C4_Witness ==
    /\ op = "delete"
    /\ ret # NoVal
    /\ cursor.current # Null
    /\ list.next[cursor.current] # Null

\* C5: every delete() with the cursor on a node leaves len() one less than
\* it was.
C5_DeleteDecrementsLen ==
    [][(op' = "delete" /\ cursor.current # Null) =>
        len(list') = len(list) - 1]_vars

\* C6: with a mutable cursor live, index() is the 0-based place of the
\* current node counted from head when the cursor is on a node, and no value
\* when it is off-list.
C6_IndexIsPosition ==
    mode = "cursor_mut" =>
        IF cursor.current = Null
        THEN CursorMut_index(cursor) = NoVal
        ELSE CursorMut_index(cursor) = Pos(Forward(list), cursor.current) - 1

\* C7: a borrowing iterator made on any reachable list never yields a node
\* twice, whatever the interleaving of next() and next_back().
C7_NoDoubleYield ==
    mode \in {"iter", "iter_mut"} =>
        NoDuplicates(front_yields \o back_yields)

\* C8: on a list made by from(s), n = Len(s), the nodes next() has yielded
\* are s[1], s[2], ... in order and those next_back() has yielded are s[n],
\* s[n-1], ... in order, each call reporting that node's element; both ends
\* keep yielding until n nodes are out, and from then on both report no
\* value.
C8_IterYieldsInOrder ==
    LET s == Forward(list)
        n == Len(s)
        f == Len(front_yields)
        b == Len(back_yields)
        exhausted == IF mode = "iter"
                     THEN /\ Iter_next(iter, list)[2] = Null
                          /\ Iter_next_back(iter, list)[2] = Null
                     ELSE /\ IterMut_next(iter, list)[2] = Null
                          /\ IterMut_next_back(iter, list)[2] = Null
        ready == IF mode = "iter"
                 THEN /\ Iter_next(iter, list)[2] # Null
                      /\ Iter_next_back(iter, list)[2] # Null
                 ELSE /\ IterMut_next(iter, list)[2] # Null
                      /\ IterMut_next_back(iter, list)[2] # Null
    IN  /\ op = "from" => Elements(list) \in Inputs /\ list = from(Elements(list))
        /\ mode \in {"iter", "iter_mut"} =>
              /\ f + b <= n
              /\ front_yields = SubSeq(s, 1, f)
              /\ back_yields = SubSeq(Reverse(s), 1, b)
              /\ (op = "next" /\ ret # NoVal) => ret = Elements(list)[f]
              /\ (op = "next_back" /\ ret # NoVal) => ret = Elements(list)[n + 1 - b]
              /\ (op \in {"next", "next_back"} /\ ret = NoVal) => f + b = n
              /\ f + b = n => exhausted
              /\ f + b < n => ready

\* C8's case: an iterator over a three-element list was advanced from both
\* ends until the ends met, and the next call reported no value.
C8_Witness ==
    /\ mode \in {"iter", "iter_mut"}
    /\ Len(Forward(list)) = 3
    /\ Len(front_yields) >= 1
    /\ Len(back_yields) >= 1
    /\ Len(front_yields) + Len(back_yields) = 3
    /\ op = "next"
    /\ ret = NoVal

\* C9: insert_before(v) off-list is push_front(v) and leaves the cursor
\* off-list; on the node at 0-based place i it puts v at place i, len() grows
\* by one, the cursor stays on its node, whose element is unchanged, and
\* index() becomes i + 1.
C9_InsertBefore ==
    [][op' = "insert_before" =>
        IF cursor.current = Null
        THEN /\ list' = push_front(list, arg')
             /\ cursor'.current = Null
        ELSE LET s == Forward(list)
                 p == Pos(s, cursor.current)
             IN  /\ p >= 1
                 /\ Elements(list') = InsertAt(Elements(list), p, arg')
                 /\ Remove(Forward(list'), p) = s
                 /\ Backward(list') = Reverse(Forward(list'))
                 /\ len(list') = len(list) + 1
                 /\ cursor'.current = cursor.current
                 /\ CursorMut_current(cursor', list') = CursorMut_current(cursor, list)
                 /\ CursorMut_index(cursor') = (p - 1) + 1]_vars

\* C10: insert_after(v) off-list is push_back(v); on the node at 0-based
\* place i it puts v at place i + 1 (the new tail when the node was the
\* tail), len() grows by one, and the cursor's current element and index()
\* are unchanged.
C10_InsertAfter ==
    [][op' = "insert_after" =>
        IF cursor.current = Null
        THEN /\ list' = push_back(list, arg')
             /\ cursor' = cursor
        ELSE LET s == Forward(list)
                 p == Pos(s, cursor.current)
             IN  /\ p >= 1
                 /\ Elements(list') = InsertAt(Elements(list), p + 1, arg')
                 /\ Remove(Forward(list'), p + 1) = s
                 /\ Backward(list') = Reverse(Forward(list'))
                 /\ p = Len(s) => list'.tail = Forward(list')[p + 1]
                 /\ len(list') = len(list) + 1
                 /\ cursor'.current = cursor.current
                 /\ CursorMut_current(cursor', list') = CursorMut_current(cursor, list)
                 /\ CursorMut_index(cursor') = CursorMut_index(cursor)]_vars

\* C10's case: insert_after has put a node between the cursor's node and the
\* node that followed it.
C10_Witness ==
    /\ op = "insert_after"
    /\ cursor.current # Null
    /\ list.next[cursor.current] # Null
    /\ list.next[list.next[cursor.current]] # Null
    /\ list.element[list.next[cursor.current]] = arg

----------------------------------------------------------------------------
\* A caller that owns the list, uses only its push and pop methods and writes
\* down every call with the value it passed or was returned.

Event(o, v) == [op |-> o, val |-> v]

Logged(o, v) ==
    /\ Len(log) < MaxOps
    /\ log' = Append(log, Event(o, v))
    /\ op' = o
    /\ UNCHANGED <<cursor, iter, mode, front_yields, back_yields, source, walk,
                   held>>

LogPushFront ==
    /\ mode = "list"
    /\ len(list) < MaxLen
    /\ \E v \in Values :
          /\ list' = push_front(list, v)
          /\ arg' = v
          /\ Logged("push_front", v)
    /\ ret' = NoVal

LogPushBack ==
    /\ mode = "list"
    /\ len(list) < MaxLen
    /\ \E v \in Values :
          /\ list' = push_back(list, v)
          /\ arg' = v
          /\ Logged("push_back", v)
    /\ ret' = NoVal

LogPopFront ==
    /\ mode = "list"
    /\ list' = pop_front(list)[1]
    /\ ret' = pop_front(list)[2]
    /\ arg' = NoVal
    /\ Logged("pop_front", pop_front(list)[2])

LogPopBack ==
    /\ mode = "list"
    /\ list' = pop_back(list)[1]
    /\ ret' = pop_back(list)[2]
    /\ arg' = NoVal
    /\ Logged("pop_back", pop_back(list)[2])

\* The caller pushes at the back and pops at the front.
NextFifo ==
    \/ LogPushBack
    \/ LogPopFront

SpecFifo == Init /\ [][NextFifo]_vars

\* Every call so far was one of ops.
OnlyCalled(ops) == \A i \in 1..Len(log) : log[i].op \in ops

\* The caller keeps to one end of the list: the front, or the back.
LifoPushFront == OnlyCalled({"push_front", "pop_front"}) /\ LogPushFront
LifoPopFront == OnlyCalled({"push_front", "pop_front"}) /\ LogPopFront
LifoPushBack == OnlyCalled({"push_back", "pop_back"}) /\ LogPushBack
LifoPopBack == OnlyCalled({"push_back", "pop_back"}) /\ LogPopBack

NextLifo ==
    \/ LifoPushFront
    \/ LifoPopFront
    \/ LifoPushBack
    \/ LifoPopBack

SpecLifo == Init /\ [][NextLifo]_vars

IsPush(e) == e.op \in {"push_front", "push_back"}
IsPop(e) == e.op \in {"pop_front", "pop_back"}
IsPopOk(e) == IsPop(e) /\ e.val # NoVal

\* The values of the events of l, in order.
ValuesOf(l) == [i \in 1..Len(l) |-> l[i].val]

\* The values pushed, and the values successful pops returned, in order.
Pushed(l) == ValuesOf(SelectSeq(l, IsPush))
Popped(l) == ValuesOf(SelectSeq(l, IsPopOk))

\* The pushed values not yet popped after the calls of l, oldest first, when
\* each successful pop takes the newest.
RECURSIVE Pending(_)
Pending(l) ==
    IF l = <<>> THEN <<>>
    ELSE LET rest == Pending(SubSeq(l, 1, Len(l) - 1))
             e == l[Len(l)]
         IN  IF IsPush(e) THEN Append(rest, e.val)
             ELSE IF IsPopOk(e) /\ rest # <<>> THEN SubSeq(rest, 1, Len(rest) - 1)
             ELSE rest

\* C11: with push_back and pop_front interleaved in any way on a list that
\* began empty, the k-th successful pop_front returns the k-th value pushed,
\* and a pop_front reports no value exactly when every value pushed before
\* it has been popped.
C11_Fifo ==
    LET pushes == Pushed(log)
        pops == Popped(log)
    IN  /\ Len(pops) <= Len(pushes)
        /\ pops = SubSeq(pushes, 1, Len(pops))
        /\ \A i \in 1..Len(log) :
              IsPop(log[i]) =>
                  LET before == SubSeq(log, 1, i - 1)
                  IN  (log[i].val = NoVal) <=>
                          (Len(Pushed(before)) = Len(Popped(before)))

\* C11's case: pushes and pops were interleaved, two different values came
\* out, a pop found the list empty, and a push followed a pop.
C11_Witness ==
    /\ \E i, j \in 1..Len(log) :
          /\ i < j
          /\ IsPopOk(log[i])
          /\ IsPopOk(log[j])
          /\ log[i].val # log[j].val
    /\ \E i \in 1..Len(log) : IsPop(log[i]) /\ log[i].val = NoVal
    /\ \E i \in 2..Len(log) : IsPush(log[i]) /\ IsPopOk(log[i - 1])

\* C12: with push_front and pop_front interleaved in any way on a list that
\* began empty (or push_back and pop_back), each successful pop returns the
\* newest pushed value not yet popped, a pop reports no value exactly when
\* there is none, and pushes followed by as many pops come out reversed.
C12_Lifo ==
    /\ \A i \in 1..Len(log) :
          IsPop(log[i]) =>
              LET p == Pending(SubSeq(log, 1, i - 1))
              IN  log[i].val = IF p = <<>> THEN NoVal ELSE p[Len(p)]
    /\ \A m \in 1..Len(log) :
          (/\ Len(log) = 2 * m
           /\ \A i \in 1..m : IsPush(log[i])
           /\ \A i \in (m + 1)..(2 * m) : IsPop(log[i]))
          => Popped(log) = Reverse(Pushed(log))

\* C12's case: at the back end, two different values were pushed and then
\* both popped, and a later pop found the list empty.
C12_Witness ==
    /\ Len(log) >= 5
    /\ log[1].op = "push_back"
    /\ log[2].op = "push_back"
    /\ log[1].val # log[2].val
    /\ log[3].op = "pop_back"
    /\ log[4].op = "pop_back"
    /\ log[5].op = "pop_back"
    /\ log[5].val = NoVal

\* C13: pop_front() and pop_back() on a list with no nodes return no value
\* and leave the list as it was; otherwise they remove exactly the head
\* (tail) node, return its element, take 1 from len, and leave head and tail
\* both none when that node was the last.
C13_Pop ==
    [][LET s == Forward(list)
           e == Elements(list)
           n == Len(s)
       IN  /\ (op' = "pop_front" /\ n = 0) => ret' = NoVal /\ list' = list
           /\ (op' = "pop_back" /\ n = 0) => ret' = NoVal /\ list' = list
           /\ (op' = "pop_front" /\ n > 0) =>
                 /\ ret' = e[1]
                 /\ Forward(list') = Tail(s)
                 /\ Elements(list') = Tail(e)
                 /\ Backward(list') = Reverse(Tail(s))
                 /\ list'.live = list.live \ {s[1]}
                 /\ len(list') = len(list) - 1
                 /\ n = 1 => list'.head = Null /\ list'.tail = Null
           /\ (op' = "pop_back" /\ n > 0) =>
                 /\ ret' = e[n]
                 /\ Forward(list') = SubSeq(s, 1, n - 1)
                 /\ Elements(list') = SubSeq(e, 1, n - 1)
                 /\ Backward(list') = Reverse(SubSeq(s, 1, n - 1))
                 /\ list'.live = list.live \ {s[n]}
                 /\ len(list') = len(list) - 1
                 /\ n = 1 => list'.head = Null /\ list'.tail = Null]_vars

\* C13's case: pop_front has removed the last node of the list.
C13_Witness ==
    /\ op = "pop_front"
    /\ ret # NoVal
    /\ list.head = Null
    /\ list.tail = Null

\* C14: delete() on a mutable cursor that is off-list returns no value and
\* changes neither the list (nodes, links, head, tail, len) nor the cursor
\* (position, index).
C14_DeleteOffList ==
    [][(op' = "delete" /\ cursor.current = Null) =>
          /\ ret' = NoVal
          /\ list' = list
          /\ cursor' = cursor]_vars

\* C14's case: delete was called off-list on a list that has nodes.
C14_Witness ==
    /\ mode = "cursor_mut"
    /\ op = "delete"
    /\ ret = NoVal
    /\ cursor.current = Null
    /\ list.head # Null

\* What current() and index() report on the live cursor, of either kind.
Current == IF mode = "cursor" THEN Cursor_current(cursor, list)
           ELSE CursorMut_current(cursor, list)

Index == IF mode = "cursor" THEN Cursor_index(cursor)
         ELSE CursorMut_index(cursor)

\* C15: a new cursor is off-list, current() and index() reporting no value.
\* On a list of n nodes the k-th move_next() of a run begun off-list lands, for
\* k <= n, on the node at 0-based place k - 1, where current() is its element
\* and index() is k - 1; the (n + 1)-th lands off-list; the one after starts
\* the run again.  On an empty list every move_next() stays off-list.
C15_MoveNextCycle ==
    mode \in {"cursor", "cursor_mut"} =>
        LET s == Forward(list)
            n == Len(s)
        IN  /\ op \in {"cursor", "cursor_mut"} =>
                  /\ cursor.current = Null
                  /\ Current = NoVal
                  /\ Index = NoVal
            /\ walk.dir = "next" =>
                  /\ walk.k \in 1..(n + 1)
                  /\ walk.k <= n =>
                        /\ cursor.current = s[walk.k]
                        /\ Current = Elements(list)[walk.k]
                        /\ Index = walk.k - 1
                  /\ walk.k = n + 1 =>
                        /\ cursor.current = Null
                        /\ Current = NoVal
                        /\ Index = NoVal

\* C15's case: a cursor has gone once around a three-node list, through
\* off-list, and stands on the head again.
C15_Witness ==
    /\ mode = "cursor"
    /\ Len(Forward(list)) = 3
    /\ walk = [dir |-> "next", k |-> 1]
    /\ cursor.index = 0
    /\ cursor.current = list.head
    /\ list.len = 3

\* C16: on a list of n nodes the k-th move_prev() of a run begun off-list
\* lands, for k <= n, on the node at 0-based place n - k, where current() is
\* its element and index() is n - k; the (n + 1)-th lands off-list.  On an
\* empty list move_prev() stays off-list and index() reports no value.
C16_MovePrevCycle ==
    mode \in {"cursor", "cursor_mut"} =>
        LET s == Forward(list)
            n == Len(s)
        IN  walk.dir = "prev" =>
                /\ walk.k \in 1..(n + 1)
                /\ walk.k <= n =>
                      /\ cursor.current = s[n + 1 - walk.k]
                      /\ Current = Elements(list)[n + 1 - walk.k]
                      /\ Index = n - walk.k
                /\ walk.k = n + 1 =>
                      /\ cursor.current = Null
                      /\ Current = NoVal
                      /\ Index = NoVal

\* C17: on either kind of cursor, in any position, peek_next() returns what
\* current() would report after one move_next(), peek_prev() what it would
\* report after one move_prev(), and neither changes the cursor or the list.
C17_Peek ==
    [][LET after(C) == IF mode = "cursor" THEN Cursor_current(C, list)
                       ELSE CursorMut_current(C, list)
       IN  /\ op' = "peek_next" =>
                 /\ ret' = after(move_next(cursor, list))
                 /\ cursor' = cursor
                 /\ list' = list
           /\ op' = "peek_prev" =>
                 /\ ret' = after(move_prev(cursor, list))
                 /\ cursor' = cursor
                 /\ list' = list]_vars

\* C17's case: a read-only cursor that is off-list peeked backwards at the
\* tail of a list whose head holds another value.
C17_Witness ==
    /\ mode = "cursor"
    /\ op = "peek_prev"
    /\ cursor.current = Null
    /\ ret # NoVal
    /\ ret # front(list)

\* C18: on the owning iterator of a list whose nodes were s (n of them) when
\* it moved in, whatever the interleaving, the nodes next() has emptied are
\* s[1], s[2], ... in order and those next_back() has emptied are s[n],
\* s[n-1], ... in order, no node twice, each call returning that node's
\* element; what is left in the wrapped list is the part of s between them;
\* both ends keep yielding until n elements are out, and from then on both
\* report no value and the wrapped list has no node left.
C18_IntoIterDrains ==
    LET s == Forward(source)
        e == Elements(source)
        n == Len(s)
        f == Len(front_yields)
        b == Len(back_yields)
    IN  mode = "into_iter" =>
            /\ f + b <= n
            /\ front_yields = SubSeq(s, 1, f)
            /\ back_yields = SubSeq(Reverse(s), 1, b)
            /\ NoDuplicates(front_yields \o back_yields)
            /\ (op = "next" /\ ret # NoVal) => ret = e[f]
            /\ (op = "next_back" /\ ret # NoVal) => ret = e[n + 1 - b]
            /\ (op \in {"next", "next_back"} /\ ret = NoVal) => f + b = n
            /\ Forward(list) = SubSeq(s, f + 1, n - b)
            /\ Elements(list) = SubSeq(e, f + 1, n - b)
            /\ f + b < n =>
                  /\ IntoIter_next(list)[2] # NoVal
                  /\ IntoIter_next_back(list)[2] # NoVal
            /\ f + b = n =>
                  /\ IntoIter_next(list)[2] = NoVal
                  /\ IntoIter_next_back(list)[2] = NoVal
                  /\ list.live = {}
                  /\ list.head = Null
                  /\ list.tail = Null

\* C18's case: an owning iterator over three elements, not all equal, was
\* drained from both ends, and the call after the third yield reported no
\* value.
C18_Witness ==
    /\ mode = "into_iter"
    /\ Len(Forward(source)) = 3
    /\ Elements(source)[1] # Elements(source)[3]
    /\ Len(front_yields) >= 1
    /\ Len(back_yields) >= 1
    /\ Len(front_yields) + Len(back_yields) = 3
    /\ op = "next_back"
    /\ ret = NoVal
    /\ list.live = {}

----------------------------------------------------------------------------
\* A caller that turns a sequence into a list, by LinkedList::from or by
\* push_back of one element after the other, moves the list into its owning
\* iterator and calls next() on it, writing down every value it passed and
\* every result.

PushEvents(s) == [i \in 1..Len(s) |-> Event("push_back", s[i])]

InitRoundTrip ==
    /\ \E s \in Inputs : list = from(s) /\ log = PushEvents(s)
    /\ cursor = NoCursor
    /\ iter = NoIter
    /\ mode = "list"
    /\ op = "from"
    /\ arg = NoVal
    /\ ret = NoVal
    /\ front_yields = <<>>
    /\ back_yields = <<>>
    /\ source = LinkedList_new
    /\ walk = NoWalk
    /\ held = {}

IsNext(e) == e.op = "next"
IsYield(e) == IsNext(e) /\ e.val # NoVal

\* The values next() returned, in order.
Yielded(l) == ValuesOf(SelectSeq(l, IsYield))

RoundTripPushBack == LogPushBack

RoundTripIntoIter == IntoIterNew

\* at most MaxOps calls of next()
RoundTripNext ==
    /\ mode = "into_iter"
    /\ Len(SelectSeq(log, IsNext)) < MaxOps
    /\ Drained(IntoIter_next(list), "next", list.head, TRUE)
    /\ log' = Append(log, Event("next", IntoIter_next(list)[2]))
    /\ UNCHANGED held

NextRoundTrip ==
    \/ RoundTripPushBack
    \/ RoundTripIntoIter
    \/ RoundTripNext

SpecRoundTrip == InitRoundTrip /\ [][NextRoundTrip]_vars

\* C19: when a list built by push_back of the elements of s in order is
\* drained front to back by its owning iterator, the values next() returns
\* are s[1], s[2], ... in order, and next() reports no value only after
\* Len(s) of them: the values yielded up to the first None are exactly s.
C19_RoundTrip ==
    LET s == Pushed(log)
        y == Yielded(log)
    IN  /\ Len(y) <= Len(s)
        /\ y = SubSeq(s, 1, Len(y))
        /\ mode = "into_iter" => Len(Forward(list)) = Len(s) - Len(y)
        /\ \A i \in 1..Len(log) :
              (IsNext(log[i]) /\ log[i].val = NoVal) =>
                  Yielded(SubSeq(log, 1, i - 1)) = s

\* C19's case: three values, not all equal, were pushed, next() returned
\* three values and then reported no value.
C19_Witness ==
    /\ Len(Pushed(log)) = 3
    /\ Pushed(log)[1] # Pushed(log)[3]
    /\ Len(Yielded(log)) = 3
    /\ IsNext(log[Len(log)])
    /\ log[Len(log)].val = NoVal

\* C20: front() returns the element of the head node and back() that of the
\* tail node, which is what pop_front() / pop_back() would return at that
\* moment; either reports no value exactly when the list has no node; the
\* call leaves every node, link, head, tail and len as they were; and called
\* right after push_front(v), front() is v, right after push_back(v), back()
\* is v.
C20_FrontBack ==
    [][/\ op' = "front" =>
             /\ ret' = IF Forward(list) = <<>> THEN NoVal
                       ELSE Elements(list)[1]
             /\ ret' = pop_front(list)[2]
             /\ ret' = NoVal <=> list.live = {}
             /\ list' = list
             /\ op = "push_front" => ret' = arg
       /\ op' = "back" =>
             /\ ret' = IF Forward(list) = <<>> THEN NoVal
                       ELSE Elements(list)[Len(Forward(list))]
             /\ ret' = pop_back(list)[2]
             /\ ret' = NoVal <=> list.live = {}
             /\ list' = list
             /\ op = "push_back" => ret' = arg]_vars

\* C20's case: back() was called on a list of three nodes whose head and
\* tail hold different elements.
C20_Witness ==
    /\ op = "back"
    /\ Len(Forward(list)) = 3
    /\ ret = back(list)
    /\ ret # front(list)

----------------------------------------------------------------------------
\* Storage

\* No reference the list or the mutable cursor holds names a released node.
NoDangling ==
    /\ list.head \in list.live \cup {Null}
    /\ list.tail \in list.live \cup {Null}
    /\ \A n \in list.live :
          /\ list.next[n] \in list.live \cup {Null}
          /\ list.prev[n] \in list.live \cup {Null}
    /\ mode = "cursor_mut" => cursor.current \in list.live \cup {Null}

\* The step is a call of a removing method: pop_front, pop_back (the owning
\* iterator's next and next_back are these) or the mutable cursor's delete.
IsRemoval ==
    \/ op' \in {"pop_front", "pop_back", "delete"}
    \/ mode = "into_iter" /\ op' \in {"next", "next_back"}

\* The node such a call detaches, if there is one.
Removed ==
    IF op' \in {"pop_front", "next"} THEN list.head
    ELSE IF op' \in {"pop_back", "next_back"} THEN list.tail
    ELSE cursor.current

\* C21: a removal that returns an element releases one node, the one it
\* detached, which was allocated until then; a removal that returns None and
\* every other call short of dropping the list release nothing; and in every
\* reachable state head, tail, the links of every live node and the mutable
\* cursor's current are null or live nodes.
C21_ReclaimOnce ==
    /\ []NoDangling
    /\ [][/\ (IsRemoval /\ ret' # NoVal) =>
                /\ Removed \in list.live
                /\ list'.live = list.live \ {Removed}
          /\ (IsRemoval /\ ret' = NoVal) => list'.live = list.live
          /\ (~IsRemoval /\ op' # "drop") => list.live \subseteq list'.live]_vars

\* C21's case: delete released the middle node of three, and the cursor is
\* on its successor.
C21_Witness ==
    /\ mode = "cursor_mut"
    /\ op = "delete"
    /\ ret # NoVal
    /\ Cardinality(list.live) = 2
    /\ cursor.current # Null
    /\ list.prev[cursor.current] # Null
    /\ list.next[cursor.current] = Null

\* The nodes the pop_back calls of Drop release on L, in order, at most fuel
\* of them.
RECURSIVE Teardown(_, _)
Teardown(L, fuel) ==
    IF fuel = 0 \/ pop_back(L)[2] = NoVal THEN <<>>
    ELSE <<L.tail>> \o Teardown(pop_back(L)[1], fuel - 1)

\* C22: when a list is dropped, in whatever state the calls before left it,
\* the loop ends after as many pop_back calls as there were allocated nodes,
\* each call releases a different node that was allocated until then, and
\* afterwards no node is allocated.
C22_Teardown ==
    mode = "dropped" =>
        LET r == Teardown(source, MaxLen + 1)
        IN  /\ Len(r) = Cardinality(source.live)
            /\ NoDuplicates(r)
            /\ Range(r) = source.live
            /\ list = drop(source)
            /\ list.live = {}
            /\ list.head = Null
            /\ list.tail = Null

\* C22's case: a list of two nodes whose len says three, as a mutable
\* cursor's delete leaves it, was dropped.
C22_Witness ==
    /\ mode = "dropped"
    /\ Cardinality(source.live) = 2
    /\ source.len = 3
    /\ list.live = {}

----------------------------------------------------------------------------
\* A caller that builds a list, takes a mutable cursor and keeps the
\* references the cursor hands out.

\* what a call of a CursorMut method returning Option<&'a mut T> leaves: the
\* result, and the caller holding a reference into node n that stays usable
\* for the rest of the borrow 'a, whatever is called on the cursor next
Handed(o, v, n) ==
    /\ op' = o
    /\ arg' = NoVal
    /\ ret' = v
    /\ held' = IF n = Null THEN held ELSE held \cup {n}
    /\ UNCHANGED <<list, cursor, iter, mode, front_yields, back_yields,
                   source, walk, log>>

HeldCurrent ==
    /\ mode = "cursor_mut"
    /\ Handed("current", CursorMut_current(cursor, list),
              CursorMut_current_ref(cursor))

HeldPeekNext ==
    /\ mode = "cursor_mut"
    /\ Handed("peek_next", CursorMut_peek_next(cursor, list),
              CursorMut_peek_next_ref(cursor, list))

HeldPeekPrev ==
    /\ mode = "cursor_mut"
    /\ Handed("peek_prev", CursorMut_peek_prev(cursor, list),
              CursorMut_peek_prev_ref(cursor, list))

\* The caller reads through a reference it holds.  Reading a released node
\* is undefined behaviour: any value may come out.
Deref ==
    /\ mode = "cursor_mut"
    /\ \E n \in held :
          ret' \in IF n \in list.live THEN {list.element[n]}
                   ELSE Values \cup {NoVal}
    /\ op' = "deref"
    /\ arg' = NoVal
    /\ UNCHANGED <<list, cursor, iter, mode, front_yields, back_yields,
                   source, walk, log, held>>

NextHeld ==
    \/ PushBack
    \/ CursorMutNew
    \/ CursorMutDrop
    \/ CursorMutMoveNext
    \/ CursorMutMovePrev
    \/ CursorMutDelete
    \/ HeldCurrent
    \/ HeldPeekNext
    \/ HeldPeekPrev
    \/ Deref

SpecHeld == Init /\ [][NextHeld]_vars

\* C23: while a mutable cursor is live, every reference the caller holds
\* from its current(), peek_next() or peek_prev() is into a node that is
\* still allocated: none outlives a delete() of its node.
C23_NoRefOutlivesDelete ==
    mode = "cursor_mut" => held \subseteq list.live

\* What index() reports on the cursor struct C of the kind that is live.
IndexOf(C) == IF mode = "cursor_mut" THEN CursorMut_index(C) ELSE Cursor_index(C)

\* C24: for a cursor of either kind on any reachable list, move_next() then
\* move_prev(), and move_prev() then move_next(), leave the cursor on the
\* node it was on (or off-list if it was off-list) with index() reporting
\* what it reported before the two moves.
C24_MovesAreInverse ==
    mode \in {"cursor", "cursor_mut"} =>
        LET np == move_prev(move_next(cursor, list), list)
            pn == move_next(move_prev(cursor, list), list)
        IN  /\ np.current = cursor.current
            /\ IndexOf(np) = IndexOf(cursor)
            /\ pn.current = cursor.current
            /\ IndexOf(pn) = IndexOf(cursor)

\* C25: in every reachable state len is at least the number of allocated
\* nodes, so it is at least one whenever pop_front or pop_back finds a node,
\* and the `len -= 1` of either leaves a length that is not below zero: the
\* unsigned field never wraps.
C25_LenNeverUnderflows ==
    /\ list.len >= Cardinality(list.live)
    /\ list.head # Null => list.len >= 1
    /\ list.tail # Null => list.len >= 1
    /\ pop_front(list)[1].len >= 0
    /\ pop_back(list)[1].len >= 0
    /\ drop(list).len >= 0

\* C25's case: a pop took the last allocated node and its `len -= 1` brought
\* len down to exactly zero.
C25_Witness ==
    /\ op \in {"pop_front", "pop_back"}
    /\ ret # NoVal
    /\ list.live = {}
    /\ list.len = 0

====
